---- MODULE Spec2Model ----
(***************************************************************************)
(* Model of plugins/lighthouse/exceptions.py: the coverage exception       *)
(* classes (their constructors and the `verbose` property) and the         *)
(* warn_errors() reporter that dumps a batch of errors to the log and      *)
(* pops up one warning per error class.                                    *)
(***************************************************************************)
EXTENDS Integers, Sequences, FiniteSets, TLC

(* ---------------------------------------------------------------------- *)
(* Bounds                                                                   *)
(* ---------------------------------------------------------------------- *)
MaxInst == 2      \* instances collected in one batch
MaxKeys == 2      \* distinct keys (error classes) in one batch
MaxCalls == 2     \* calls of warn_errors on the finished batch

(* ---------------------------------------------------------------------- *)
(* Python values that are passed around                                     *)
(* ---------------------------------------------------------------------- *)
NoneV == [tag |-> "None", id |-> 0, filepath |-> "None"]

Paths == { [tag |-> "str", id |-> 0, filepath |-> "a.cov"] }

\* coverage objects; each carries its own filepath attribute
Coverages == { [tag |-> "coverage", id |-> 1, filepath |-> "b.cov"],
               [tag |-> "coverage", id |-> 2, filepath |-> "c.cov"] }

Tracebacks == [tag |-> "tracebacks", id |-> 0, filepath |-> "None"]

(* ---------------------------------------------------------------------- *)
(* The exception classes                                                    *)
(* ---------------------------------------------------------------------- *)
ErrorTypes == <<"CoverageParsingError", "CoverageMissingError",
                "CoverageMappingAbsent", "CoverageMappingSuspicious">>

Kinds == {ErrorTypes[i] : i \in 1..Len(ErrorTypes)}

\* class attribute `name`
name(cls) ==
    CASE cls = "CoverageParsingError"      -> "PARSE_FAILURE"
      [] cls = "CoverageMissingError"      -> "NO_COVERAGE_ERROR"
      [] cls = "CoverageMappingAbsent"     -> "NO_COVERAGE_MAPPED"
      [] cls = "CoverageMappingSuspicious" -> "BAD_COVERAGE_MAPPING"

\* class attribute `description` (first sentence of each text)
description(cls) ==
    CASE cls = "CoverageParsingError" ->
           "Failed to parse one or more of the selected coverage files!"
      [] cls = "CoverageMissingError" ->
           "No usable coverage data was extracted from one of the selected files."
      [] cls = "CoverageMappingAbsent" ->
           "One or more of the loaded coverage files has no visibly mapped data."
      [] cls = "CoverageMappingSuspicious" ->
           "One or more of the loaded coverage files appears to be badly mapped."

NoInstance == [type |-> "None", message |-> "None", filepath |-> "None",
               tracebacks |-> NoneV, coverage |-> NoneV]

\* the outcome of a constructor call: an instance, or an exception
Made(cls, args, raised, inst) ==
    [cls |-> cls, args |-> args, raised |-> raised, inst |-> inst]

NothingMade == Made("None", <<>>, "None", NoInstance)

\* CoverageException.__init__(self, message, filepath)
CoverageException__init__(cls, message, filepath) ==
    [type |-> cls, message |-> message, filepath |-> filepath,
     tracebacks |-> NoneV, coverage |-> NoneV]

\* CoverageException.verbose: "Error: %s\n\n%s" % (self.name, self.description)
verbose(error) ==
    <<"Error: ", name(error.type), "\n\n", description(error.type)>>

\* CoverageParsingError(filepath, tracebacks)
CoverageParsingError__init__(args) ==
    IF Len(args) # 2
    THEN Made("CoverageParsingError", args, "TypeError", NoInstance)
    ELSE Made("CoverageParsingError", args, "None",
              [CoverageException__init__("CoverageParsingError",
                   "Failed to parse coverage file", args[1].filepath)
               EXCEPT !.tracebacks = args[2]])

\* CoverageMissingError(filepath)
CoverageMissingError__init__(args) ==
    IF Len(args) # 1
    THEN Made("CoverageMissingError", args, "TypeError", NoInstance)
    ELSE Made("CoverageMissingError", args, "None",
              CoverageException__init__("CoverageMissingError",
                   "No coverage extracted from file", args[1].filepath))

\* a seeded fault: the coverage argument is optional and the path defaults
CoverageMappingAbsent__init__defaulted(args) ==
    IF Len(args) > 1
    THEN Made("CoverageMappingAbsent", args, "TypeError", NoInstance)
    ELSE LET coverage == IF Len(args) = 1 THEN args[1] ELSE NoneV
         IN  Made("CoverageMappingAbsent", args, "None",
                  [CoverageException__init__("CoverageMappingAbsent",
                       "No coverage data could be mapped",
                       IF coverage.tag = "coverage" THEN coverage.filepath ELSE "")
                   EXCEPT !.coverage = coverage])

\* CoverageMappingAbsent(coverage): reads coverage.filepath
CoverageMappingAbsent__init__(args) ==
    IF Len(args) # 1
    THEN Made("CoverageMappingAbsent", args, "TypeError", NoInstance)
    ELSE IF args[1].tag # "coverage"
    THEN Made("CoverageMappingAbsent", args, "AttributeError", NoInstance)
    ELSE Made("CoverageMappingAbsent", args, "None",
              [CoverageException__init__("CoverageMappingAbsent",
                   "No coverage data could be mapped", args[1].filepath)
               EXCEPT !.coverage = args[1]])

\* CoverageMappingSuspicious(coverage): reads coverage.filepath
CoverageMappingSuspicious__init__(args) ==
    IF Len(args) # 1
    THEN Made("CoverageMappingSuspicious", args, "TypeError", NoInstance)
    ELSE IF args[1].tag # "coverage"
    THEN Made("CoverageMappingSuspicious", args, "AttributeError", NoInstance)
    ELSE Made("CoverageMappingSuspicious", args, "None",
              [CoverageException__init__("CoverageMappingSuspicious",
                   "Coverage data appears badly mapped", args[1].filepath)
               EXCEPT !.coverage = args[1]])

(* ---------------------------------------------------------------------- *)
(* warn_errors                                                              *)
(* ---------------------------------------------------------------------- *)
SepWidth == 50

\* "-"*50
Separator == [c \in 1..SepWidth |-> "-"]

\* one observable effect of a call; `of` is the key being processed
Lmsg(text, of) == [op |-> "lmsg", text |-> text, of |-> of]
Warning(text, of) == [op |-> "warning", text |-> text, of |-> of]

\* disassembler.warning(text): pops up the box, or fails when no UI exists
disassembler_warning(headless_env) ==
    IF headless_env THEN "RuntimeError" ELSE "None"

\* a seeded fault: the `continue` for ignored classes never happens
Suppressed_never(error_type, ignore) == FALSE

\* `if error_type in ignore: continue`
Suppressed(error_type, ignore) == error_type \in ignore

\* the result of one call: what it emitted, how it ended, and the
\* arguments as the call left them
Result(events, exc, errors, ignore) ==
    [events |-> events, exc |-> exc, errors |-> errors, ignore |-> ignore]

\* `for error in error_list: lmsg(" - %s" % error.filepath)`
\* fr is the frame: the events so far and the local variable `error`
RECURSIVE ForError(_, _, _, _)
ForError(error_list, j, of, fr) ==
    IF j > Len(error_list) THEN fr
    ELSE ForError(error_list, j + 1, of,
            [events |-> Append(fr.events,
                               Lmsg(<<" - ", error_list[j].filepath>>, of)),
             bound  |-> TRUE,
             error  |-> error_list[j]])

\* `for error_type, error_list in iteritems(errors): ...` and the closing
\* separator after the loop
RECURSIVE ForErrorType(_, _, _, _, _)
ForErrorType(errors, i, ignore, headless_env, fr) ==
    IF i > Len(errors)
    THEN Result(Append(fr.events, Lmsg(Separator, "None")), "None", errors, ignore)
    ELSE
      LET error_type == errors[i].type
          error_list == errors[i].list
          fr1 == [fr EXCEPT !.events = fr.events \o
                     << Lmsg(Separator, error_type),
                        Lmsg(<<"Files reporting ", name(error_type), ":">>, error_type) >>]
          fr2 == ForError(error_list, 1, error_type, fr1)
      IN  IF Suppressed(error_type, ignore)
          THEN ForErrorType(errors, i + 1, ignore, headless_env, fr2)
          ELSE IF ~fr2.bound
          THEN Result(fr2.events, "UnboundLocalError", errors, ignore)
          ELSE LET fr3 == [fr2 EXCEPT !.events =
                             Append(fr2.events, Warning(verbose(fr2.error), error_type))]
                   exc == disassembler_warning(headless_env)
               IN  IF exc # "None"
                   THEN Result(fr3.events, exc, errors, ignore)
                   ELSE ForErrorType(errors, i + 1, ignore, headless_env, fr3)

EmptyFrame == [events |-> <<>>, bound |-> FALSE, error |-> NoInstance]

\* a seeded fault: the `if not errors: return` guard is missing
warn_errors_noguard(errors, ignore, headless_env) ==
    ForErrorType(errors, 1, ignore, headless_env, EmptyFrame)

\* a seeded fault: every reported class is added to the ignore list
warn_errors_remember(errors, ignore, headless_env) ==
    LET r == IF errors = <<>> THEN Result(<<>>, "None", errors, ignore)
             ELSE ForErrorType(errors, 1, ignore, headless_env, EmptyFrame)
    IN  [r EXCEPT !.ignore = ignore \cup {errors[i].type : i \in 1..Len(errors)}]

\* warn_errors(errors, ignore)
warn_errors(errors, ignore, headless_env) ==
    IF errors = <<>>
    THEN Result(<<>>, "None", errors, ignore)
    ELSE ForErrorType(errors, 1, ignore, headless_env, EmptyFrame)

(* ---------------------------------------------------------------------- *)
(* State                                                                    *)
(* ---------------------------------------------------------------------- *)
VARIABLES
    errors,          \* the batch: ordered mapping, a sequence of [type, list]
    suppressed,      \* the ignore collection the caller passes
    default_ignore,  \* the object bound to the default `ignore=[]`
    headless,        \* whether the host can show a message box
    made,            \* outcome of the latest constructor call
    calls            \* the finished calls of warn_errors, in order

vars == <<errors, suppressed, default_ignore, headless, made, calls>>

KeysOf(batch) == {batch[i].type : i \in 1..Len(batch)}

RECURSIVE CountInstances(_, _)
CountInstances(batch, i) ==
    IF i > Len(batch) THEN 0
    ELSE Len(batch[i].list) + CountInstances(batch, i + 1)

\* ordered mappings whose keys are present and whose lists are still empty
EmptyBatches ==
    { b \in UNION { [1..n -> [type : Kinds, list : {<<>>}]] : n \in 0..MaxKeys } :
        \A i, j \in 1..Len(b) : i # j => b[i].type # b[j].type }

\* the ignore collections passed by the caller: nothing, one class, all
IgnoreChoices == {{}} \cup {{K} : K \in Kinds} \cup {Kinds}

Init ==
    /\ errors \in EmptyBatches
    /\ suppressed \in IgnoreChoices
    /\ default_ignore = {}
    /\ headless \in BOOLEAN
    /\ made = NothingMade
    /\ calls = <<>>

(* ---------------------------------------------------------------------- *)
(* Actions                                                                  *)
(* ---------------------------------------------------------------------- *)
Building == calls = <<>> /\ made.inst = NoInstance

\* argument tuples tried on the constructors: the right ones, and ones
\* with an argument missing, None for the coverage, or an extra path
ParsingArgs ==
    {<<p>> : p \in Paths} \cup {<<p, Tracebacks>> : p \in Paths}

MissingArgs ==
    {<<>>} \cup {<<p>> : p \in Paths}

MappingArgs ==
    {<<>>} \cup {<<c>> : c \in Coverages \cup {NoneV}}
           \cup {<<c, p>> : c \in {CHOOSE c \in Coverages : c.id = 1}, p \in Paths}

ConstructParsingError ==
    /\ Building
    /\ \E args \in ParsingArgs : made' = CoverageParsingError__init__(args)
    /\ UNCHANGED <<errors, suppressed, default_ignore, headless, calls>>

ConstructMissingError ==
    /\ Building
    /\ \E args \in MissingArgs : made' = CoverageMissingError__init__(args)
    /\ UNCHANGED <<errors, suppressed, default_ignore, headless, calls>>

ConstructMappingAbsent ==
    /\ Building
    /\ \E args \in MappingArgs : made' = CoverageMappingAbsent__init__(args)
    /\ UNCHANGED <<errors, suppressed, default_ignore, headless, calls>>

ConstructMappingSuspicious ==
    /\ Building
    /\ \E args \in MappingArgs : made' = CoverageMappingSuspicious__init__(args)
    /\ UNCHANGED <<errors, suppressed, default_ignore, headless, calls>>

\* errors[type(e)].append(e)
AppendTo(batch, e) ==
    IF e.type \in KeysOf(batch)
    THEN [i \in 1..Len(batch) |->
            IF batch[i].type = e.type
            THEN [batch[i] EXCEPT !.list = Append(@, e)]
            ELSE batch[i]]
    ELSE Append(batch, [type |-> e.type, list |-> <<e>>])

\* the pipeline files the instance it has just built under its class
Collect ==
    /\ calls = <<>>
    /\ made.inst # NoInstance
    /\ CountInstances(errors, 1) < MaxInst
    /\ made.inst.type \in KeysOf(errors) \/ Len(errors) < MaxKeys
    /\ errors' = AppendTo(errors, made.inst)
    /\ made' = NothingMade
    /\ UNCHANGED <<suppressed, default_ignore, headless, calls>>

CallRecord(passed, batch, ignore, r) ==
    [passed |-> passed, errors |-> batch, ignore |-> ignore,
     events |-> r.events, exc |-> r.exc,
     errors_after |-> r.errors, ignore_after |-> r.ignore]

\* warn_errors(errors, suppressed)
WarnErrors ==
    /\ Len(calls) < MaxCalls
    /\ LET r == warn_errors(errors, suppressed, headless)
       IN  /\ calls' = Append(calls, CallRecord("explicit", errors, suppressed, r))
           /\ errors' = r.errors
           /\ suppressed' = r.ignore
    /\ made' = NothingMade
    /\ UNCHANGED <<default_ignore, headless>>

\* warn_errors(errors)
WarnErrorsDefault ==
    /\ Len(calls) < MaxCalls
    /\ LET r == warn_errors(errors, default_ignore, headless)
       IN  /\ calls' = Append(calls, CallRecord("default", errors, default_ignore, r))
           /\ errors' = r.errors
           /\ default_ignore' = r.ignore
    /\ made' = NothingMade
    /\ UNCHANGED <<suppressed, headless>>

Next ==
    \/ ConstructParsingError
    \/ ConstructMissingError
    \/ ConstructMappingAbsent
    \/ ConstructMappingSuspicious
    \/ Collect
    \/ WarnErrors
    \/ WarnErrorsDefault

Spec == Init /\ [][Next]_vars

(* ---------------------------------------------------------------------- *)
(* Properties of the finished calls                                         *)
(* ---------------------------------------------------------------------- *)
CallIdx == 1..Len(calls)

ListOf(batch, K) == batch[CHOOSE i \in 1..Len(batch) : batch[i].type = K].list

WarnIdx(c, K) ==
    {i \in 1..Len(c.events) : c.events[i].op = "warning" /\ c.events[i].of = K}

AllWarnIdx(c) == {i \in 1..Len(c.events) : c.events[i].op = "warning"}

SepIdx(c) ==
    {i \in 1..Len(c.events) : c.events[i].op = "lmsg" /\ c.events[i].text = Separator}

IsHeader(e) == e.op = "lmsg" /\ Len(e.text) = 3 /\ e.text[1] = "Files reporting "

IsPathLine(e) == e.op = "lmsg" /\ Len(e.text) = 2 /\ e.text[1] = " - "

\* a separator line directly followed by a header line
GroupIdx(c) ==
    {i \in SepIdx(c) : i < Len(c.events) /\ IsHeader(c.events[i + 1])}

HasHeader(c, K) ==
    \E i \in 1..Len(c.events) :
        c.events[i] = Lmsg(<<"Files reporting ", name(K), ":">>, K)

\* the file paths logged while processing K, in log order
PathsLogged(c, K) ==
    LET F(e) == IsPathLine(e) /\ e.of = K
        sel == SelectSeq(c.events, F)
    IN  [i \in 1..Len(sel) |-> sel[i].text[2]]

PathsOf(list) == [i \in 1..Len(list) |-> list[i].filepath]

NonIgnored(c) == KeysOf(c.errors) \ c.ignore

\* C1: every kind of the batch that is not ignored gets exactly one
\* notification in a call, carrying the verbose message of the last
\* instance of that kind's list.
C1_OneWarningOfLastInstance ==
    \A n \in CallIdx : \A K \in NonIgnored(calls[n]) :
        LET c == calls[n]
            list == ListOf(c.errors, K)
        IN  /\ Cardinality(WarnIdx(c, K)) = 1
            /\ Len(list) > 0 =>
                 \A i \in WarnIdx(c, K) : c.events[i].text = verbose(list[Len(list)])

\* C2: every ignored kind of the batch gets no notification, and the log
\* still holds its header line and one file-path line per instance.
C2_IgnoredStillLogged ==
    \A n \in CallIdx : \A K \in KeysOf(calls[n].errors) \cap calls[n].ignore :
        LET c == calls[n]
        IN  /\ WarnIdx(c, K) = {}
            /\ HasHeader(c, K)
            /\ PathsLogged(c, K) = PathsOf(ListOf(c.errors, K))

\* C3: a call never raises; it returns normally after logging every kind
\* and the closing separator, also when the notification primitive fails.
C3_NeverRaises ==
    \A n \in CallIdx :
        LET c == calls[n]
        IN  /\ c.exc = "None"
            /\ c.errors # <<>> =>
                 /\ \A K \in KeysOf(c.errors) : HasHeader(c, K)
                 /\ c.events # <<>>
                 /\ c.events[Len(c.events)] = Lmsg(Separator, "None")

\* C4: for a non-empty batch the number of groups opened in the log equals
\* the number of kinds with at least one instance, and the number of
\* separator lines is that number plus one.
C4_GroupsEqualPopulatedKinds ==
    \A n \in CallIdx :
        LET c == calls[n]
            populated == {K \in KeysOf(c.errors) : Len(ListOf(c.errors, K)) > 0}
        IN  c.errors # <<>> =>
              /\ Cardinality(GroupIdx(c)) = Cardinality(populated)
              /\ Cardinality(SepIdx(c)) = Cardinality(populated) + 1

\* C5: with an empty batch a call returns at once whatever the ignore set
\* is: no log line, no notification, no exception.
C5_EmptyBatchNoOp ==
    \A n \in CallIdx :
        calls[n].errors = <<>> =>
            /\ calls[n].events = <<>>
            /\ calls[n].exc = "None"

C5_Witness ==
    \E n \in CallIdx : calls[n].errors = <<>> /\ calls[n].ignore # {}

\* C6: two calls with the same batch and the same ignore argument emit the
\* same log lines and notifications, and a call changes neither the batch,
\* nor the ignore set, nor the shared default ignore object.
C6_RepeatableAndPure ==
    /\ \A m, n \in CallIdx :
         (calls[m].passed = calls[n].passed /\ calls[m].errors = calls[n].errors) =>
            /\ calls[m].events = calls[n].events
            /\ calls[m].exc = calls[n].exc
    /\ \A n \in CallIdx :
         /\ calls[n].errors_after = calls[n].errors
         /\ calls[n].ignore_after = calls[n].ignore
    /\ default_ignore = {}

C6_Witness ==
    /\ Len(calls) >= 2
    /\ calls[1].passed = "default" /\ calls[2].passed = "default"
    /\ AllWarnIdx(calls[2]) # {}
    /\ CountInstances(calls[2].errors, 1) >= 2

MappingKinds == {"CoverageMappingAbsent", "CoverageMappingSuspicious"}

\* C8: a mapping warning built from a coverage object has that object's
\* file path, and a construction without a coverage reference (or with an
\* independent path) raises and yields no instance.
C8_MappingPathFromCoverage ==
    /\ made.cls \in MappingKinds =>
         /\ made.raised = "None" =>
              /\ Len(made.args) = 1
              /\ made.args[1] \in Coverages
              /\ made.inst.type = made.cls
              /\ made.inst.filepath = made.args[1].filepath
         /\ (made.args = <<>> \/ made.args[1] \notin Coverages \/ Len(made.args) > 1) =>
              /\ made.raised # "None"
              /\ made.inst = NoInstance
    /\ \A i \in 1..Len(errors) : \A j \in 1..Len(errors[i].list) :
         errors[i].type \in MappingKinds =>
            /\ errors[i].list[j].coverage \in Coverages
            /\ errors[i].list[j].filepath = errors[i].list[j].coverage.filepath

C8_Witness ==
    /\ made.cls = "CoverageMappingAbsent"
    /\ made.args = <<NoneV>>
    /\ made.raised = "AttributeError"
    /\ \E i \in 1..Len(errors) :
         /\ errors[i].type = "CoverageMappingAbsent"
         /\ Len(errors[i].list) = 1
         /\ errors[i].list[1].filepath = "c.cov"

\* the events a kind should produce, with the notification text left out
RECURSIVE ExpectedShape(_, _, _)
ExpectedShape(batch, i, ignore) ==
    IF i > Len(batch) THEN << Lmsg(Separator, "None") >>
    ELSE LET K == batch[i].type
             list == batch[i].list
         IN  << Lmsg(Separator, K), Lmsg(<<"Files reporting ", name(K), ":">>, K) >>
             \o [j \in 1..Len(list) |-> Lmsg(<<" - ", list[j].filepath>>, K)]
             \o (IF K \in ignore THEN <<>> ELSE << Warning(<<>>, K) >>)
             \o ExpectedShape(batch, i + 1, ignore)

Shape(events) ==
    [i \in 1..Len(events) |->
        IF events[i].op = "warning" THEN Warning(<<>>, events[i].of) ELSE events[i]]

\* C9: in a call on a non-empty batch each kind's events are contiguous and
\* ordered (separator, header, one path line per instance in list order,
\* then its notification unless ignored), and the closing separator is the
\* last event.
C9_EventOrder ==
    \A n \in CallIdx :
        calls[n].errors # <<>> =>
            Shape(calls[n].events) = ExpectedShape(calls[n].errors, 1, calls[n].ignore)

\* C10: a notification emitted while processing kind K carries K's own
\* verbose message, and a kind with an empty list never makes the call fail
\* on an undefined instance.
C10_WarningOfOwnKind ==
    \A n \in CallIdx :
        /\ calls[n].exc # "UnboundLocalError"
        /\ \A i \in AllWarnIdx(calls[n]) :
             calls[n].events[i].text =
                <<"Error: ", name(calls[n].events[i].of), "\n\n",
                  description(calls[n].events[i].of)>>

====
